---- MODULE Spec2Model ----
(***************************************************************************)
(* A model of nonstd::skiplist (src/skiplist.h) and of the way src/main.cc *)
(* drives it.  Memory is a store of node cells addressed by small          *)
(* integers; the two containers of the model are identified by the address *)
(* of their head node (the container's mHead member).                      *)
(*                                                                         *)
(* Levels are numbered as the source's loop variable `level`               *)
(* (1..MAX_HEIGHT); the source indexes mRhs with level - 1.                *)
(***************************************************************************)
EXTENDS Integers, Sequences, FiniteSets, TLC

\* Number of node cells the allocator can hand out.
MaxNodes == 3
\* Keys are the integers 1..MaxKey (MyDataItem::id).
MaxKey == 3
\* detail::MAX_HEIGHT is 10 in the source; the model keeps the algorithm and
\* lowers the number of levels.
MAX_HEIGHT == 2
\* Calls followed after an erase has unlinked more than the node it was given.
MaxStray == 3
\* Calls each of two interleaved execution contexts makes.
MaxCalls == 2

NULL == 0
Nodes == 1..MaxNodes
HeadA == MaxNodes + 1
HeadB == MaxNodes + 2
Lists == {HeadA, HeadB}
Cells == Nodes \cup Lists
Ptr == {NULL} \cup Cells
Keys == 1..MaxKey
Levels == 1..MAX_HEIGHT
\* T(): the key the head node is constructed with.
DefaultKey == 0

VARIABLES
    mKey,         \* node::mKey of every cell
    mRhs,         \* node::mRhs of every cell: a sequence, one entry per level
    live,         \* the node cells that are allocated and not yet deallocated
    constructed,  \* the containers that exist
    mLhs,         \* pointers_to_node::mLhs, the static buffer of the class
    cmp,          \* the comparator type C of the containers
    invalid,      \* the link slots <<cell, level>> holding a pointer to storage
                  \* that was deallocated after the pointer was stored
    ub,           \* a call has used an invalid pointer or read past a vector
    pending,      \* per container and key: inserts minus erase calls
    strayed,      \* 0 while every allocated node is on the level-1 chain of a
                  \* container and no link is invalid; from then on the number
                  \* of calls made, the one that ended it included
    last,         \* the last call made and what it returned
    pc            \* per container: the call its execution context is in the
                  \* middle of, between predecessor discovery and the loop
                  \* that uses the buffer

vars == <<mKey, mRhs, live, constructed, mLhs, cmp, invalid, ub, pending, strayed, last, pc>>

\* mCompare(a, b): std::less (main.cc:85) or std::greater (main.cc:119) over
\* MyDataItem::id.
Compare(a, b) == IF cmp = "less" THEN a < b ELSE a > b

\* Neither key precedes the other.
Equiv(a, b) == ~Compare(a, b) /\ ~Compare(b, a)

\* The program state the operations work on, as one value: the keys, the
\* links, the allocated cells, the static buffer, the invalid link slots, and
\* whether the behaviour has become undefined.
Store == [k |-> mKey, r |-> mRhs, lv |-> live, buf |-> mLhs, inv |-> invalid, ub |-> ub]

\* What a read of storage the program does not own may find: any key g.key
\* and any pointer g.ptr (the value last written there, or what the allocator
\* or another object left there).  A read past the end of a vector finds
\* g.ptr too.
Garbage == [key : Keys, ptr : Ptr]

\* The garbage used where no read can meet any.
NoGarbage == [key |-> 1, ptr |-> NULL]

\* n is a deallocated (or never allocated) node cell.
Dangling(st, n) == n \in Nodes \ st.lv

\* Reading or writing n->mRhs[level - 1] is undefined.
BadRhs(st, n, level) == Dangling(st, n) \/ level > Len(st.r[n])

\* The pointer in n->mRhs[level - 1] may not be dereferenced: it was read
\* from storage the program does not own, or what it points to has been
\* deallocated since it was stored.
PtrBad(st, n, level) ==
    \/ BadRhs(st, n, level)
    \/ <<n, level>> \in st.inv
    \/ Dangling(st, st.r[n][level])

\* n->mKey
KeyAt(st, n, g) == IF Dangling(st, n) THEN g.key ELSE st.k[n]

\* n->mRhs[level - 1]
RhsAt(st, n, level, g) ==
    IF Dangling(st, n) THEN g.ptr
    ELSE IF level <= Len(st.r[n]) THEN st.r[n][level] ELSE g.ptr

\* n->mRhs[level - 1] = v, where bad tells whether v is an invalid pointer.
\* A write to deallocated storage or past the end of the vector changes no
\* cell the program owns.
SetRhs(st, n, level, v, bad) ==
    IF BadRhs(st, n, level) THEN [st EXCEPT !.ub = TRUE]
    ELSE [st EXCEPT !.r[n][level] = v,
                    !.inv = IF bad THEN @ \cup {<<n, level>>} ELSE @ \ {<<n, level>>}]

\* No walk over acyclic links takes more hops than this.
Fuel == MaxNodes + 2

\* The inner while loop of discoverLinksToUpdate: walk right on one level
\* while the neighbour's key precedes key.  n is where the walk stops; NULL
\* stands for a loop that never ends (the links form a cycle).
RECURSIVE WalkRight(_, _, _, _, _, _)
WalkRight(st, n, level, key, g, fuel) ==
    LET nx == RhsAt(st, n, level, g)
        u  == BadRhs(st, n, level) \/ (nx # NULL /\ PtrBad(st, n, level))
    IN IF nx # NULL /\ Compare(KeyAt(st, nx, g), key)
       THEN IF fuel = 0 THEN [n |-> NULL, ub |-> TRUE]
            ELSE LET w == WalkRight(st, nx, level, key, g, fuel - 1)
                 IN [n |-> w.n, ub |-> u \/ w.ub]
       ELSE [n |-> n, ub |-> u]

\* The outer for loop of discoverLinksToUpdate, from `level` down to 1,
\* writing the static buffer.  ok is FALSE when a walk never ends.
RECURSIVE DiscoverFrom(_, _, _, _, _)
DiscoverFrom(st, n, level, key, g) ==
    IF level = 0 THEN [ok |-> TRUE, st |-> st]
    ELSE LET w == WalkRight(st, n, level, key, g, Fuel) IN
         IF w.n = NULL THEN [ok |-> FALSE, st |-> st]
         ELSE DiscoverFrom([st EXCEPT !.buf[level] = w.n, !.ub = @ \/ w.ub],
                           w.n, level - 1, key, g)

discoverLinksToUpdate(st, head, key, height, g) ==
    DiscoverFrom(st, head, height, key, g)

\* One round of the splice loop of insert.
SpliceLevel(st, newnode, level, g) ==
    LET lhs == st.buf
        s0 == [st EXCEPT !.ub = @ \/ BadRhs(st, lhs[level], level)]
        s1 == SetRhs(s0, newnode, level, RhsAt(st, lhs[level], level, g),
                     PtrBad(st, lhs[level], level))
    IN SetRhs(s1, lhs[level], level, newnode, FALSE)

\* The splice loop of insert, from `level` down to 1.
RECURSIVE Splice(_, _, _, _)
Splice(st, newnode, level, g) ==
    IF level = 0 THEN st
    ELSE Splice(SpliceLevel(st, newnode, level, g), newnode, level - 1, g)

\* One round of the unlink loop of erase.
UnlinkLevel(st, node, level, g) ==
    LET lhs == st.buf IN
    IF lhs[level] = NULL THEN st
    ELSE SetRhs([st EXCEPT !.ub = @ \/ BadRhs(st, node, level)],
                lhs[level], level, RhsAt(st, node, level, g), PtrBad(st, node, level))

\* The unlink loop of erase, from `level` down to 1.
RECURSIVE Unlink(_, _, _, _)
Unlink(st, node, level, g) ==
    IF level = 0 THEN st
    ELSE Unlink(UnlinkLevel(st, node, level, g), node, level - 1, g)

\* find: the while loop on one level.  Returns where the loop left n, and the
\* node found (NULL if none); ok is FALSE for a loop that never ends.
RECURSIVE FindLevel(_, _, _, _, _, _)
FindLevel(st, n, level, key, g, fuel) ==
    LET nx == RhsAt(st, n, level, g)
        u  == BadRhs(st, n, level) \/ (nx # NULL /\ PtrBad(st, n, level))
    IN IF nx = NULL THEN [ok |-> TRUE, n |-> n, found |-> NULL, ub |-> u]
       ELSE IF Compare(key, KeyAt(st, nx, g))
            THEN [ok |-> TRUE, n |-> n, found |-> NULL, ub |-> u]
       ELSE IF Compare(KeyAt(st, nx, g), key)
            THEN IF fuel = 0 THEN [ok |-> FALSE, n |-> n, found |-> NULL, ub |-> TRUE]
                 ELSE LET f == FindLevel(st, nx, level, key, g, fuel - 1)
                      IN [f EXCEPT !.ub = @ \/ u]
       ELSE [ok |-> TRUE, n |-> n, found |-> nx, ub |-> u]

\* find: the for loop over the levels, from `level` down to 1.
RECURSIVE FindFrom(_, _, _, _, _)
FindFrom(st, n, level, key, g) ==
    IF level = 0 THEN [ok |-> TRUE, node |-> NULL, ub |-> FALSE]
    ELSE LET f == FindLevel(st, n, level, key, g, Fuel) IN
         IF ~f.ok THEN [ok |-> FALSE, node |-> NULL, ub |-> TRUE]
         ELSE IF f.found # NULL THEN [ok |-> TRUE, node |-> f.found, ub |-> f.ub]
         ELSE LET d == FindFrom(st, f.n, level - 1, key, g)
              IN [d EXCEPT !.ub = @ \/ f.ub]

\* find(key) on the container with head `head`: the node of the iterator
\* returned (NULL for end()).
find(st, head, key, g) == FindFrom(st, head, Len(st.r[head]), key, g)

\* begin(): iterator(this, mHead.mRhs[0]).
begin(st, head, g) == RhsAt(st, head, 1, g)

\* iterator(skiplist, node): the private constructor of the iterator.
iterator(skiplist, node) == [mSkiplist |-> skiplist, mNode |-> node]

\* A variant of operatorEq that compares the nodes only.
operatorEqNode(a, b) == a.mNode = b.mNode

\* iterator::operator==
operatorEq(a, b) == a.mSkiplist = b.mSkiplist /\ a.mNode = b.mNode

\* end(): iterator(this, nullptr).
end(head) == iterator(head, NULL)

\* operator[]: the node reached from n by `hops` reads of mRhs[0], and its
\* key.  ub tells whether a pointer read on the way may not be dereferenced.
RECURSIVE AtFrom(_, _, _, _)
AtFrom(st, n, hops, g) ==
    IF n = NULL THEN [node |-> NULL, key |-> g.key, ub |-> TRUE]
    ELSE IF hops = 0 THEN [node |-> n, key |-> KeyAt(st, n, g), ub |-> FALSE]
    ELSE LET a == AtFrom(st, RhsAt(st, n, 1, g), hops - 1, g)
         IN [a EXCEPT !.ub = @ \/ PtrBad(st, n, 1)]

\* A variant of operatorAt that counts the hops from the head node.
operatorAtHead(st, head, position, g) == AtFrom(st, head, position, g)

\* operator[](position): n = mHead.mRhs[0], then position hops, then n->mKey.
operatorAt(st, head, position, g) == AtFrom(st, head, position + 1, g)

\* The nodes visited by iterating from begin() to end(): operator++ follows
\* mRhs[0].  The walk is cut after Fuel + 1 nodes.
RECURSIVE Chain(_, _, _, _)
Chain(st, n, g, fuel) ==
    IF n = NULL \/ fuel = 0 THEN <<>>
    ELSE <<n>> \o Chain(st, RhsAt(st, n, 1, g), g, fuel - 1)

Traversal(st, head, g) == Chain(st, begin(st, head, g), g, Fuel + 1)

\* The keys operator* yields along the traversal.
TraversalKeys(st, head, g) ==
    LET t == Traversal(st, head, g) IN [i \in 1..Len(t) |-> KeyAt(st, t[i], g)]

\* The loop of size(): while (n = n->mRhs[0]) count++.  The count is cut
\* where the traversal is cut.
RECURSIVE SizeFrom(_, _, _, _)
SizeFrom(st, n, g, fuel) ==
    LET nx == RhsAt(st, n, 1, g) IN
    IF nx = NULL \/ fuel = 0 THEN 0 ELSE 1 + SizeFrom(st, nx, g, fuel - 1)

\* A variant of size that starts the loop at the node begin() returns.
sizeFromBegin(st, head, g) ==
    IF begin(st, head, g) = NULL THEN 0
    ELSE SizeFrom(st, begin(st, head, g), g, Fuel + 1)

\* size(): n = &mHead, then the loop.
size(st, head, g) == SizeFrom(st, head, g, Fuel + 1)

\* empty(): nullptr == mHead.mRhs[0].
empty(st, head, g) == RhsAt(st, head, 1, g) = NULL

SeqRange(s) == {s[i] : i \in 1..Len(s)}

\* Every cell that some container in cs can reach by following stored links
\* of any level.
RECURSIVE ReachFrom(_, _)
ReachFrom(r, S) ==
    LET U == {c \in Cells : c \in S \/ \E n \in S : \E i \in 1..Len(r[n]) : r[n][i] = c}
    IN IF U = S THEN S ELSE ReachFrom(r, U)

Reach(r, cs) == ReachFrom(r, cs)

\* Allocated node cells that no container can reach any more are kept in one
\* canonical form: no call reads them again.
Collect(st, cs) ==
    LET R == Reach(st.r, cs)
        gone == st.lv \ R
    IN [st EXCEPT !.k = [c \in Cells |-> IF c \in gone THEN DefaultKey ELSE st.k[c]],
                  !.r = [c \in Cells |-> IF c \in gone THEN <<>> ELSE st.r[c]],
                  !.inv = {x \in @ : x[1] \notin gone}]

\* mNodeAllocator.allocate(1) returning cell id: the pointers to the storage
\* that was there before stay invalid.
Allocate(st, id) ==
    [st EXCEPT !.lv = @ \cup {id},
               !.inv = @ \cup {<<c, i>> \in Cells \X Levels :
                                  i <= Len(st.r[c]) /\ st.r[c][i] = id}]

\* mRhs(height, nullptr): a vector of height null pointers.
RECURSIVE NullPointers(_)
NullPointers(height) ==
    IF height = 0 THEN <<>> ELSE Append(NullPointers(height - 1), NULL)

\* mNodeAllocator.construct(newnode, key, height): node(key, height).
Construct(st, id, key, height) ==
    [st EXCEPT !.k[id] = key,
               !.r[id] = NullPointers(height),
               !.inv = {x \in @ : x[1] # id}]

\* insert(key) on container head, with the height drawn and the cell the
\* allocator returns.  ok is FALSE when the call does not return.
insert(st, head, key, height, id, g) ==
    LET d  == discoverLinksToUpdate(st, head, key, height, g)
        s0 == Construct(Allocate(d.st, id), id, key, height)
    IN [ok |-> d.ok,
        st |-> Splice(s0, id, height, g),
        ret |-> id,
        flag |-> TRUE]

\* mNodeAllocator.destroy + deallocate: the cell is no longer the program's,
\* and what it holds is from now on read as garbage.
Deallocate(st, node) ==
    IF node \notin st.lv THEN [st EXCEPT !.ub = TRUE]
    ELSE [st EXCEPT !.lv = @ \ {node},
                    !.k[node] = DefaultKey,
                    !.r[node] = <<>>,
                    !.inv = {x \in @ : x[1] # node}]

\* position.mNode->mRhs.size()
HeightAt(st, node, g) == IF Dangling(st, node) THEN 1 ELSE Len(st.r[node])

\* A variant of EraseNext that reads the successor on the node's top level.
EraseNextTop(st, node, g) == RhsAt(st, node, HeightAt(st, node, g), g)

\* The iterator erase returns: position.mNode->mRhs[0], read after the unlink
\* loop.
EraseNext(st, node, g) == RhsAt(st, node, 1, g)

\* erase(position) on container head.
erase(st, head, node, g) ==
    LET height == HeightAt(st, node, g)
        d  == discoverLinksToUpdate(st, head, KeyAt(st, node, g), height, g)
        s1 == Unlink(d.st, node, height, g)
    IN [ok |-> d.ok,
        st |-> Deallocate(s1, node),
        ret |-> EraseNext(s1, node, g)]

\* clear(): erase begin() until begin() = end().  prev is the cell whose
\* mRhs[0] the iterator was read from; keys lists the keys of the erased nodes.
RECURSIVE ClearLoop(_, _, _, _, _, _)
ClearLoop(st, head, prev, keys, g, fuel) ==
    LET it == RhsAt(st, prev, 1, g) IN
    IF it = NULL THEN [ok |-> TRUE, st |-> st, keys |-> keys]
    ELSE IF fuel = 0 THEN [ok |-> FALSE, st |-> st, keys |-> keys]
    ELSE LET s1 == [st EXCEPT !.ub = @ \/ PtrBad(st, prev, 1)]
             e  == erase(s1, head, it, g)
         IN IF ~e.ok THEN [ok |-> FALSE, st |-> st, keys |-> keys]
            ELSE ClearLoop(e.st, head, head, Append(keys, KeyAt(s1, it, g)), g, fuel - 1)

clear(st, head, g) == ClearLoop(st, head, head, <<>>, g, Fuel)

\* The cell mNodeAllocator.allocate(1) returns: the first one not in use.
NextCell(st) == {id \in Nodes \ st.lv : \A other \in Nodes \ st.lv : id <= other}

\* The height the i-th insert of a copy draws.
HeightOf(hs, i) == IF i \in DOMAIN hs THEN hs[i] ELSE 1

\* The loop of the copy constructor: for (it = other.begin(); it != other.end();
\* ++it) insert(*it).  prev is the cell whose mRhs[0] the iterator is read
\* from; keys lists the keys inserted.  ok is FALSE when the constructor does
\* not return (allocation fails, or the loop never ends).
RECURSIVE CopyLoop(_, _, _, _, _, _, _)
CopyLoop(st, dst, prev, hs, keys, g, fuel) ==
    LET it == RhsAt(st, prev, 1, g) IN
    IF it = NULL THEN [ok |-> TRUE, st |-> st, keys |-> keys]
    ELSE IF fuel = 0 \/ NextCell(st) = {} THEN [ok |-> FALSE, st |-> st, keys |-> keys]
    ELSE LET s1  == [st EXCEPT !.ub = @ \/ PtrBad(st, prev, 1)]
             id  == CHOOSE c \in NextCell(st) : TRUE
             key == KeyAt(s1, it, g)
             i   == insert(s1, dst, key, HeightOf(hs, Len(keys) + 1), id, g)
         IN IF ~i.ok THEN [ok |-> FALSE, st |-> st, keys |-> keys]
            ELSE CopyLoop(i.st, dst, it, hs, Append(keys, key), g, fuel - 1)

\* mHead(T(), detail::MAX_HEIGHT): the head node of a new container.
NewHead(st, head) ==
    [st EXCEPT !.k[head] = DefaultKey,
               !.r[head] = NullPointers(MAX_HEIGHT),
               !.inv = {x \in @ : x[1] # head}]

\* skiplist(const skiplist& other)
copy(st, dst, src, hs, g) == CopyLoop(NewHead(st, dst), dst, src, hs, <<>>, g, Fuel)

\* A variant of swap that exchanges the level-1 links of the heads only.
swapLowest(st, a, b) ==
    LET Other(c) == IF c = a THEN b ELSE IF c = b THEN a ELSE c IN
    [st EXCEPT !.r[a][1] = st.r[b][1],
               !.r[b][1] = st.r[a][1],
               !.inv = {IF x[2] = 1 THEN <<Other(x[1]), x[2]>> ELSE x : x \in @}]

\* swap(other): std::swap(mHead.mRhs, other.mHead.mRhs).
swap(st, a, b) ==
    LET Other(c) == IF c = a THEN b ELSE IF c = b THEN a ELSE c IN
    [st EXCEPT !.r[a] = st.r[b],
               !.r[b] = st.r[a],
               !.inv = {<<Other(x[1]), x[2]>> : x \in @}]

\* The nodes met between begin() and end() before the iteration leaves the
\* storage the program owns.
RECURSIVE OwnedChain(_, _, _)
OwnedChain(st, n, fuel) ==
    IF n = NULL \/ fuel = 0 THEN {}
    ELSE IF PtrBad(st, n, 1) THEN {n}
    ELSE {n} \cup OwnedChain(st, st.r[n][1], fuel - 1)

\* The iterators of container head a caller can obtain in the current state:
\* those met between begin() and end(), and those find returns.
ValidPositions(head) ==
    (OwnedChain(Store, head, Fuel + 1) \ {head})
    \cup {f.node : f \in {x \in {find(Store, head, key, NoGarbage) : key \in Keys} :
                            x.ok /\ ~x.ub /\ x.node \in live}}

Dec(x) == IF x > 0 THEN x - 1 ELSE 0

NoPending == [l \in Lists |-> [key \in Keys |-> 0]]

EmptyRhs == NullPointers(MAX_HEIGHT)

\* No call is in progress on a container.
Idle == [op |-> "idle", key |-> DefaultKey, height |-> 0, node |-> NULL, calls |-> 0]

Init ==
    /\ cmp \in {"less", "greater"}
    /\ mKey = [c \in Cells |-> DefaultKey]
    /\ mRhs = [c \in Cells |-> IF c = HeadA THEN EmptyRhs ELSE <<>>]
    /\ live = {}
    /\ constructed = {HeadA}
    /\ mLhs = NullPointers(MAX_HEIGHT)
    /\ invalid = {}
    /\ ub = FALSE
    /\ pending = NoPending
    /\ strayed = 0
    /\ last = [op |-> "construct", list |-> HeadA, other |-> NULL, key |-> DefaultKey,
               node |-> NULL, ret |-> NULL, flag |-> FALSE]
    /\ pc = [l \in Lists |-> Idle]

\* Some allocated node is on no container's level-1 chain, or some link is
\* invalid: an erase has unlinked more than the node it was given.
Strayed(st, cs) ==
    \/ st.ub
    \/ st.inv # {}
    \/ st.lv # UNION {OwnedChain(st, head, Fuel + 1) \ {head} : head \in cs}

\* A call may start while at most MaxStray calls were made since then.
Within == strayed < MaxStray

Commit(st) ==
    \E s \in {Collect(st, constructed')} :
    /\ mKey' = s.k
    /\ mRhs' = s.r
    /\ live' = s.lv
    /\ mLhs' = s.buf
    /\ invalid' = s.inv
    /\ ub' = s.ub
    /\ strayed' = IF strayed > 0 \/ Strayed(s, constructed') THEN strayed + 1 ELSE 0

Heights == 1..MAX_HEIGHT

\* The values a call can meet in storage it does not own: none when the call,
\* run without garbage, stays inside the storage the program owns.
GarbageIf(u) == IF u THEN Garbage ELSE {NoGarbage}

\* The results a call can have: the one result when it stays inside the
\* storage the program owns, else one for every value it can meet outside.
Runs(Call(_)) ==
    LET c0 == Call(NoGarbage) IN
    IF c0.st.ub THEN {Call(g) : g \in Garbage} ELSE {c0}

\* l.insert(key), the coin flips giving height.
Insert(l, key, height) ==
    /\ ~ub /\ Within
    /\ l \in constructed
    /\ \E id \in NextCell(Store) :
       \E i \in Runs(LAMBDA g : insert(Store, l, key, height, id, g)) :
          /\ i.ok
          /\ constructed' = constructed
          /\ Commit(i.st)
          /\ pending' = [pending EXCEPT ![l][key] = @ + 1]
          /\ last' = [op |-> "insert", list |-> l, other |-> NULL, key |-> key,
                      node |-> NULL, ret |-> i.ret, flag |-> i.flag]
    /\ UNCHANGED <<cmp, pc>>

\* l.erase(iterator(l, node))
Erase(l, node) ==
    /\ ~ub /\ Within
    /\ l \in constructed
    /\ node \in ValidPositions(l)
    /\ \E e \in Runs(LAMBDA g : erase(Store, l, node, g)) :
          /\ e.ok
          /\ constructed' = constructed
          /\ Commit(e.st)
          /\ pending' = [pending EXCEPT ![l][mKey[node]] = Dec(@)]
          /\ last' = [op |-> "erase", list |-> l, other |-> NULL, key |-> mKey[node],
                      node |-> node, ret |-> e.ret, flag |-> FALSE]
    /\ UNCHANGED <<cmp, pc>>

\* l.find(key): the container is not changed.
Find(l, key) ==
    /\ ~ub /\ Within
    /\ l \in constructed
    /\ \E f0 \in {find(Store, l, key, NoGarbage)} :
       \E f \in IF f0.ub THEN {find(Store, l, key, g) : g \in Garbage} ELSE {f0} :
          /\ f.ok
          /\ ub' = f.ub
          /\ strayed' = IF strayed > 0 \/ f.ub THEN strayed + 1 ELSE 0
          /\ last' = [op |-> "find", list |-> l, other |-> NULL, key |-> key,
                      node |-> NULL, ret |-> f.node, flag |-> FALSE]
    /\ UNCHANGED <<mKey, mRhs, live, constructed, mLhs, cmp, invalid, pending, pc>>

\* l[position], position in range: the container is not changed.
Index(l, position) ==
    /\ ~ub /\ Within
    /\ l \in constructed
    /\ position < size(Store, l, NoGarbage)
    /\ \E a0 \in {operatorAt(Store, l, position, NoGarbage)} :
       \E a \in IF a0.ub THEN {operatorAt(Store, l, position, g) : g \in Garbage} ELSE {a0} :
          /\ ub' = a.ub
          /\ strayed' = IF strayed > 0 \/ a.ub THEN strayed + 1 ELSE 0
          /\ last' = [op |-> "index", list |-> l, other |-> NULL, key |-> a.key,
                      node |-> a.node, ret |-> NULL, flag |-> FALSE]
    /\ UNCHANGED <<mKey, mRhs, live, constructed, mLhs, cmp, invalid, pending, pc>>

\* How many of the keys in the sequence keys are key.
RECURSIVE Count(_, _)
Count(keys, key) ==
    IF keys = <<>> THEN 0
    ELSE (IF Head(keys) = key THEN 1 ELSE 0) + Count(Tail(keys), key)

Minus(x, y) == IF x > y THEN x - y ELSE 0

\* Keys read from storage the program does not own are counted under a key of
\* the model.
Erased(p, keys) == [key \in Keys |-> Minus(p[key], Count(keys, key))]

\* l.clear()
Clear(l) ==
    /\ ~ub /\ Within
    /\ l \in constructed
    /\ \E c \in Runs(LAMBDA g : clear(Store, l, g)) :
          /\ c.ok
          /\ constructed' = constructed
          /\ Commit(c.st)
          /\ pending' = [pending EXCEPT ![l] = Erased(@, c.keys)]
          /\ last' = [op |-> "clear", list |-> l, other |-> NULL, key |-> DefaultKey,
                      node |-> NULL, ret |-> NULL, flag |-> FALSE]
    /\ UNCHANGED <<cmp, pc>>

\* l.swap(o), also nonstd::swap(l, o): what the two containers hold is
\* exchanged, and with it what each is still to hold.
Swap(l, o) ==
    /\ ~ub /\ Within
    /\ l \in constructed /\ o \in constructed /\ l # o
    /\ constructed' = constructed
    /\ Commit(swap(Store, l, o))
    /\ pending' = [pending EXCEPT ![l] = pending[o], ![o] = pending[l]]
    /\ last' = [op |-> "swap", list |-> l, other |-> o, key |-> DefaultKey,
                node |-> NULL, ret |-> NULL, flag |-> FALSE]
    /\ UNCHANGED <<cmp, pc>>

\* skiplist<T> l(o), hs the heights the inserts draw.
CopyConstruct(l, o, hs) ==
    /\ ~ub /\ Within
    /\ l \notin constructed /\ o \in constructed
    /\ \E c \in Runs(LAMBDA g : copy(Store, l, o, hs, g)) :
          /\ c.ok
          /\ constructed' = constructed \cup {l}
          /\ Commit(c.st)
          /\ pending' = [pending EXCEPT ![l] = [key \in Keys |-> Count(c.keys, key)]]
          /\ last' = [op |-> "copy", list |-> l, other |-> o, key |-> DefaultKey,
                      node |-> NULL, ret |-> NULL, flag |-> FALSE]
    /\ UNCHANGED <<cmp, pc>>

\* The heights the inserts of a copy of container o draw.
CopyHeights(o) == [1..Cardinality(OwnedChain(Store, o, Fuel + 1) \ {o}) -> Heights]

\* One container, as main.cc drives myList: insert, find, erase, operator[],
\* and clear (the destructor).
NextOne ==
    \/ \E key \in Keys, height \in Heights : Insert(HeadA, key, height)
    \/ \E node \in Nodes : Erase(HeadA, node)
    \/ \E key \in Keys : Find(HeadA, key)
    \/ Clear(HeadA)
    \/ \E position \in 0..(MaxNodes - 1) : Index(HeadA, position)

Spec == Init /\ [][NextOne]_vars

\* Two containers of one type, as main.cc drives myList and myList2: the
\* second is built as a copy of the first, both are changed, and they are
\* swapped.
NextTwo ==
    \/ \E l \in Lists, key \in Keys, height \in Heights : Insert(l, key, height)
    \/ \E l \in Lists, node \in Nodes : Erase(l, node)
    \/ \E l \in Lists : Clear(l)
    \/ Swap(HeadA, HeadB)
    \/ \E hs \in CopyHeights(HeadA) : CopyConstruct(HeadB, HeadA, hs)

\* main.cc copies and swaps containers ordered by std::less.
InitTwo == Init /\ cmp = "less"

SpecTwo == InitTwo /\ [][NextTwo]_vars

\* insert after discoverLinksToUpdate has returned: allocate, construct, and
\* splice behind the predecessors the static buffer holds.
insertSplice(st, key, height, id, g) ==
    [ok |-> TRUE,
     st |-> Splice(Construct(Allocate(st, id), id, key, height), id, height, g),
     ret |-> id]

\* erase after discoverLinksToUpdate has returned: unlink from the
\* predecessors the static buffer holds, read the successor, deallocate.
eraseUnlink(st, node, g) ==
    LET s1 == Unlink(st, node, HeightAt(st, node, g), g) IN
    [ok |-> TRUE,
     st |-> Deallocate(s1, node),
     ret |-> EraseNext(s1, node, g)]

\* The context of container l calls l.insert(key) and runs it up to the return
\* of discoverLinksToUpdate.
BeginInsert(l, key, height) ==
    /\ ~ub /\ Within
    /\ l \in constructed /\ pc[l].op = "idle" /\ pc[l].calls < MaxCalls
    /\ \E d \in Runs(LAMBDA g : discoverLinksToUpdate(Store, l, key, height, g)) :
          /\ d.ok
          /\ constructed' = constructed
          /\ Commit(d.st)
    /\ pc' = [pc EXCEPT ![l] = [op |-> "insert", key |-> key, height |-> height, node |-> NULL,
                                calls |-> pc[l].calls + 1]]
    /\ last' = [op |-> "discover", list |-> l, other |-> NULL, key |-> key,
                node |-> NULL, ret |-> NULL, flag |-> FALSE]
    /\ UNCHANGED <<cmp, pending>>

\* The context of container l runs the rest of its insert.
EndInsert(l) ==
    /\ ~ub /\ Within
    /\ pc[l].op = "insert"
    /\ \E id \in NextCell(Store) :
       \E i \in Runs(LAMBDA g : insertSplice(Store, pc[l].key, pc[l].height, id, g)) :
          /\ constructed' = constructed
          /\ Commit(i.st)
          /\ last' = [op |-> "insert", list |-> l, other |-> NULL, key |-> pc[l].key,
                      node |-> NULL, ret |-> i.ret, flag |-> TRUE]
    /\ pending' = [pending EXCEPT ![l][pc[l].key] = @ + 1]
    /\ pc' = [pc EXCEPT ![l] = [Idle EXCEPT !.calls = pc[l].calls]]
    /\ UNCHANGED cmp

\* The context of container l calls l.erase(iterator(l, node)) and runs it up
\* to the return of discoverLinksToUpdate.
BeginErase(l, node) ==
    /\ ~ub /\ Within
    /\ l \in constructed /\ pc[l].op = "idle" /\ pc[l].calls < MaxCalls
    /\ node \in ValidPositions(l)
    /\ \E d \in Runs(LAMBDA g : discoverLinksToUpdate(Store, l, KeyAt(Store, node, g),
                                                     HeightAt(Store, node, g), g)) :
          /\ d.ok
          /\ constructed' = constructed
          /\ Commit(d.st)
    /\ pc' = [pc EXCEPT ![l] = [op |-> "erase", key |-> mKey[node],
                                height |-> Len(mRhs[node]), node |-> node,
                                calls |-> pc[l].calls + 1]]
    /\ last' = [op |-> "discover", list |-> l, other |-> NULL, key |-> mKey[node],
                node |-> node, ret |-> NULL, flag |-> FALSE]
    /\ UNCHANGED <<cmp, pending>>

\* The context of container l runs the rest of its erase.
EndErase(l) ==
    /\ ~ub /\ Within
    /\ pc[l].op = "erase"
    /\ \E e \in Runs(LAMBDA g : eraseUnlink(Store, pc[l].node, g)) :
          /\ constructed' = constructed
          /\ Commit(e.st)
          /\ last' = [op |-> "erase", list |-> l, other |-> NULL, key |-> pc[l].key,
                      node |-> pc[l].node, ret |-> e.ret, flag |-> FALSE]
    /\ pending' = [pending EXCEPT ![l][pc[l].key] = Dec(@)]
    /\ pc' = [pc EXCEPT ![l] = [Idle EXCEPT !.calls = pc[l].calls]]
    /\ UNCHANGED cmp

\* Two containers of one type, each used by an execution context of its own;
\* the steps of the two contexts interleave.
NextPar ==
    \/ \E l \in Lists, key \in Keys, height \in Heights : BeginInsert(l, key, height)
    \/ \E l \in Lists : EndInsert(l)
    \/ \E l \in Lists, node \in Nodes : BeginErase(l, node)
    \/ \E l \in Lists : EndErase(l)

\* skiplist<MyDataItem> constructed twice, both empty.
InitPar ==
    /\ cmp = "less"
    /\ mKey = [c \in Cells |-> DefaultKey]
    /\ mRhs = [c \in Cells |-> IF c \in Lists THEN EmptyRhs ELSE <<>>]
    /\ live = {}
    /\ constructed = Lists
    /\ mLhs = NullPointers(MAX_HEIGHT)
    /\ invalid = {}
    /\ ub = FALSE
    /\ pending = NoPending
    /\ strayed = 0
    /\ last = [op |-> "construct", list |-> HeadB, other |-> NULL, key |-> DefaultKey,
               node |-> NULL, ret |-> NULL, flag |-> FALSE]
    /\ pc = [l \in Lists |-> Idle]

SpecPar == InitPar /\ [][NextPar]_vars

(***************************************************************************)
(* Properties.  A traversal is read with every value g that storage the    *)
(* program does not own can hold.                                          *)
(***************************************************************************)
Remove(seq, n) == SelectSeq(seq, LAMBDA x : x # n)

\* The elements of the traversal of container l whose key is equivalent to key.
Matching(st, l, key, g) ==
    LET t == Traversal(st, l, g) IN
    {i \in 1..Len(t) : Equiv(KeyAt(st, t[i], g), key)}

\* C1: in every state the insert and erase calls reach, the keys of a
\* traversal from begin() to end() are in non-decreasing order under the
\* comparator: no element compares less than the one before it.
C1_TraversalOrdered ==
    \A l \in constructed : \A g \in Garbage :
        LET t == TraversalKeys(Store, l, g) IN
        \A i \in 1..(Len(t) - 1) : ~Compare(t[i + 1], t[i])

\* C2: a key that was inserted more often than a node with that key was
\* erased is found: find returns a non-end iterator at an equivalent key.
C2_InsertedIsFound ==
    \A l \in constructed : \A key \in Keys : \A g \in Garbage :
        pending[l][key] > 0 =>
            LET f == find(Store, l, key, g) IN
            f.node # NULL /\ Equiv(KeyAt(Store, f.node, g), key)

\* C3: erase(position) takes the node position refers to out of the
\* traversal and no other node, so size() goes down by exactly 1.
C3_EraseRemovesOne ==
    [][last'.op = "erase" =>
        \A g \in Garbage :
            LET before == Traversal(Store, last'.list, g)
                after  == Traversal(Store', last'.list, g)
            IN /\ after = Remove(before, last'.node)
               /\ Len(after) = Len(before) - 1]_vars

\* C4: insert(k) returns true and an iterator at a node of key k, size()
\* goes up by exactly 1, and the traversal afterwards is the traversal
\* before with that one node added.
C4_InsertAddsOne ==
    [][last'.op = "insert" =>
        \A g \in Garbage :
            LET before == Traversal(Store, last'.list, g)
                after  == Traversal(Store', last'.list, g)
            IN /\ last'.flag
               /\ last'.ret # NULL
               /\ Equiv(KeyAt(Store', last'.ret, g), last'.key)
               /\ Len(after) = Len(before) + 1
               /\ Remove(after, last'.ret) = before]_vars

\* C5: find(k) returns end() exactly when no element of the traversal has a
\* key equivalent to k, and an iterator it returns is at an element of the
\* traversal whose key is equivalent to k.
C5_FindAgreesWithTraversal ==
    \A l \in constructed : \A key \in Keys : \A g \in Garbage :
        LET f == find(Store, l, key, g)
            t == Traversal(Store, l, g)
        IN /\ (f.node = NULL) <=> (Matching(Store, l, key, g) = {})
           /\ f.node # NULL =>
                 /\ f.node \in SeqRange(t)
                 /\ Equiv(KeyAt(Store, f.node, g), key)

\* C6: when exactly one allocated node has a key equivalent to k, that node
\* is an element of the traversal of the container, and it is erased, find(k)
\* returns end() afterwards.
C6_EraseThenAbsent ==
    [][(/\ last'.op = "erase"
        /\ Cardinality({n \in live : Equiv(mKey[n], last'.key)}) = 1
        /\ last'.node \in SeqRange(Traversal(Store, last'.list, NoGarbage)))
       => \A g \in Garbage : find(Store', last'.list, last'.key, g).node = NULL]_vars

\* C7: erase(position) returns the iterator at the node that was the
\* level-0 successor of position's node before the call, end() when that
\* node was the last one.
C7_EraseReturnsSuccessor ==
    [][last'.op = "erase" => last'.ret = mRhs[last'.node][1]]_vars

\* The erase of main.cc: key 2 is erased from the container holding 1, 2, 3,
\* and the iterator returned is at key 3.
C7_Witness ==
    /\ last.op = "erase"
    /\ last.key = 2
    /\ cmp = "less"
    /\ strayed = 0
    /\ ~ub
    /\ last.ret \in live
    /\ mKey[last.ret] = 3
    /\ TraversalKeys(Store, HeadA, NoGarbage) = <<1, 3>>

\* Iterating container head from begin() to end() uses an invalid pointer.
TraversalUb(st, head) == \E n \in OwnedChain(st, head, Fuel + 1) : PtrBad(st, n, 1)

\* The key sequences a traversal of container l can yield: one, unless the
\* traversal leaves the storage the program owns.
Traversals(st, l) ==
    {TraversalKeys(st, l, g) : g \in GarbageIf(TraversalUb(st, l))}

\* The iterators find(key) on container l can return.
Finds(st, l, key) ==
    LET f0 == find(st, l, key, NoGarbage) IN
    IF f0.ub THEN {find(st, l, key, g).node : g \in Garbage} ELSE {f0.node}

\* What a caller can see of container l: the keys of its traversal, with
\* them its size, and what find returns for every key.
Observed(st, l) ==
    [keys  |-> Traversals(st, l),
     found |-> [key \in Keys |-> Finds(st, l, key)]]

\* What a call that changed container l leaves to be seen: whether it
\* returned, and if so the traversal of l.
Outcome(c, l) ==
    [returns |-> c.ok,
     keys    |-> IF c.ok THEN Traversals(c.st, l) ELSE {}]

\* What insert(key) on container l, with the height drawn, can leave.
AfterInsert(st, l, key, height) ==
    {Outcome(c, l) : c \in UNION {Runs(LAMBDA g : insert(st, l, key, height, id, g)) :
                                     id \in NextCell(st)}}

\* What the erase of node from container l can leave, node on the level-1
\* chain of l.
AfterErase(st, l, node) ==
    IF node \notin OwnedChain(st, l, Fuel + 1) \ {l} THEN {}
    ELSE {Outcome(c, l) : c \in Runs(LAMBDA g : erase(st, l, node, g))}

\* C8: after swap(A, B) the traversal of A is the key sequence B had and the
\* traversal of B is the key sequence A had, the sizes are exchanged, and
\* find, insert and erase on either container do what they would have done
\* on the other before the swap.
C8_SwapExchanges ==
    [][last'.op = "swap" =>
        /\ Observed(Store', HeadA) = Observed(Store, HeadB)
        /\ Observed(Store', HeadB) = Observed(Store, HeadA)
        /\ size(Store', HeadA, NoGarbage) = size(Store, HeadB, NoGarbage)
        /\ size(Store', HeadB, NoGarbage) = size(Store, HeadA, NoGarbage)
        /\ \A key \in Keys, height \in Heights :
              /\ AfterInsert(Store', HeadA, key, height) = AfterInsert(Store, HeadB, key, height)
              /\ AfterInsert(Store', HeadB, key, height) = AfterInsert(Store, HeadA, key, height)
        /\ \A node \in Nodes :
              /\ AfterErase(Store', HeadA, node) = AfterErase(Store, HeadB, node)
              /\ AfterErase(Store', HeadB, node) = AfterErase(Store, HeadA, node)]_vars

\* A swap of two containers that hold different keys, one of them a node of
\* height 2, in a state no erase has damaged.
C8_Witness ==
    /\ last.op = "swap"
    /\ strayed = 0
    /\ TraversalKeys(Store, HeadA, NoGarbage) # <<>>
    /\ TraversalKeys(Store, HeadB, NoGarbage) # <<>>
    /\ TraversalKeys(Store, HeadA, NoGarbage) # TraversalKeys(Store, HeadB, NoGarbage)
    /\ mRhs[HeadA][MAX_HEIGHT] # NULL

\* C9: once C is built as a copy of O, an insert or erase on one of the two
\* leaves the traversal, and so the size, of the other unchanged.
C9_CopyIndependent ==
    [][(last'.op \in {"insert", "erase"} /\ HeadB \in constructed) =>
        \A l \in Lists \ {last'.list} : \A g \in Garbage :
            TraversalKeys(Store', l, g) = TraversalKeys(Store, l, g)]_vars

\* C10: right after the copy constructor, the copy has the size of the
\* source, and the keys of its traversal are, one by one, equivalent to the
\* keys of the traversal of the source.
C10_CopyEquivalent ==
    last.op = "copy" =>
        \A g \in Garbage :
            LET c == TraversalKeys(Store, last.list, g)
                o == TraversalKeys(Store, last.other, g)
            IN /\ Len(c) = Len(o)
               /\ \A i \in 1..Len(c) : i <= Len(o) => Equiv(c[i], o[i])

\* The links of every level stored in the head of container l and in the
\* nodes of its traversal.
LinksOf(st, l) ==
    [n \in {l} \cup SeqRange(Traversal(st, l, NoGarbage)) |-> st.r[n]]

\* C11: when two contexts work each on a container of its own and their
\* insert calls interleave between predecessor discovery and the splice loop,
\* a call leaves its container with the traversal and the links that the
\* call run alone leaves, and leaves the other container as it was.
C11_InterleavedAsAlone ==
    [][(last'.op = "insert" /\ strayed = 0 /\ strayed' = 0) =>
        LET l == last'.list
            alone == insert(Store, l, last'.key, pc[l].height, last'.ret, NoGarbage).st
        IN /\ Traversal(Store', l, NoGarbage) = Traversal(alone, l, NoGarbage)
           /\ LinksOf(Store', l) = LinksOf(alone, l)
           /\ \A o \in Lists \ {l} :
                 /\ Traversal(Store', o, NoGarbage) = Traversal(Store, o, NoGarbage)
                 /\ LinksOf(Store', o) = LinksOf(Store, o)]_vars

\* C12: after clear() has returned, the head of the container has no
\* forward reference on any level, so empty() is true, size() is 0, begin()
\* is end(), and find(k) returns end() for every key k.
C12_ClearEmpties ==
    last.op = "clear" =>
        /\ \A level \in Levels : mRhs[last.list][level] = NULL
        /\ \A g \in Garbage :
              /\ size(Store, last.list, g) = 0
              /\ begin(Store, last.list, g) = NULL
              /\ \A key \in Keys : find(Store, last.list, key, g).node = NULL

\* C13: for every position below size(), operator[](position) returns the
\* key of the element the traversal from begin() reaches after position
\* increments; operator[](size() - 1) returns the last key of the traversal.
C13_IndexIsTraversal ==
    \A l \in constructed : \A g \in Garbage :
        LET t == TraversalKeys(Store, l, g) IN
        /\ \A position \in 0..(size(Store, l, g) - 1) :
              operatorAt(Store, l, position, g).key = t[position + 1]
        /\ size(Store, l, g) > 0 =>
              operatorAt(Store, l, size(Store, l, g) - 1, g).key = t[Len(t)]

\* main.cc: myList[myList.size() - 1] on the ascending container holding
\* 1, 2, 3 has returned 3.
C13_Witness ==
    /\ last.op = "index"
    /\ cmp = "less"
    /\ strayed = 0
    /\ TraversalKeys(Store, HeadA, NoGarbage) = <<1, 2, 3>>
    /\ last.node = Traversal(Store, HeadA, NoGarbage)[3]
    /\ last.key = 3

\* The iterators container l hands out in state st: end(), begin(), those
\* operator++ reaches from begin(), and those find returns.
IteratorsOf(st, l) ==
    {end(l), iterator(l, begin(st, l, NoGarbage))}
    \cup {iterator(l, n) : n \in SeqRange(Traversal(st, l, NoGarbage))}
    \cup {iterator(l, find(st, l, key, NoGarbage).node) : key \in Keys}

\* C14: two iterators compare equal exactly when they were obtained from
\* the same container and are at the same node (or are both its end());
\* iterators of two distinct containers never compare equal, not even two
\* end iterators or iterators at equal keys of a container and its copy.
C14_IteratorEquality ==
    LET its == [l \in constructed |-> IteratorsOf(Store, l)] IN
    \A l1 \in constructed : \A l2 \in constructed :
        /\ l1 # l2 => ~operatorEq(end(l1), end(l2))
        /\ \A i1 \in its[l1] : \A i2 \in its[l2] :
              operatorEq(i1, i2) <=> (l1 = l2 /\ i1.mNode = i2.mNode)

\* A container and its copy, each holding the same key in a node of its own.
C14_Witness ==
    /\ last.op = "copy"
    /\ strayed = 0
    /\ Len(TraversalKeys(Store, HeadA, NoGarbage)) = 1
    /\ TraversalKeys(Store, HeadA, NoGarbage) = TraversalKeys(Store, HeadB, NoGarbage)

\* C15: size() is the number of elements an iterator visits when it is
\* incremented from begin() until it equals end(), and empty() is true
\* exactly when that number is 0.
C15_SizeIsTraversalLength ==
    \A l \in constructed : \A g \in Garbage :
        /\ size(Store, l, g) = Len(Traversal(Store, l, g))
        /\ empty(Store, l, g) <=> (Len(Traversal(Store, l, g)) = 0)

\* main.cc: after key 2 was erased from the container holding 1, 2, 3 the
\* size is 2 and the container is not empty.
C15_Witness ==
    /\ last.op = "erase"
    /\ strayed = 0
    /\ TraversalKeys(Store, HeadA, NoGarbage) = <<1, 3>>
    /\ size(Store, HeadA, NoGarbage) = 2
    /\ ~empty(Store, HeadA, NoGarbage)

\* Following the links of one level from n reaches a null pointer.
RECURSIVE ChainEnds(_, _, _, _, _)
ChainEnds(st, n, level, g, fuel) ==
    IF n = NULL THEN TRUE
    ELSE IF fuel = 0 THEN FALSE
    ELSE ChainEnds(st, RhsAt(st, n, level, g), level, g, fuel - 1)

\* Every call that can be made on container l in state st returns, whatever
\* storage the program does not own holds.
Terminates(st, l, g) ==
    /\ \A level \in Levels : ChainEnds(st, l, level, g, Fuel + 1)
    /\ \A key \in Keys : find(st, l, key, g).ok
    /\ \A key \in Keys : \A height \in Heights :
          discoverLinksToUpdate(st, l, key, height, g).ok
    /\ \A node \in OwnedChain(st, l, Fuel + 1) \ {l} : erase(st, l, node, g).ok
    /\ clear(st, l, g).ok

\* C16: in every reachable state every call of find, insert, erase, size,
\* operator[] and clear returns: the chain of every level reaches a null
\* pointer from the head, and the loops of the calls end.
C16_CallsTerminate ==
    \A l \in constructed : \A g \in Garbage : Terminates(Store, l, g)

\* The nodes reached from n by following the links of one level, as far as
\* the links stay inside the storage the program owns.
RECURSIVE LevelChain(_, _, _, _)
LevelChain(st, n, level, fuel) ==
    IF n = NULL \/ fuel = 0 THEN {}
    ELSE IF PtrBad(st, n, level) THEN {n}
    ELSE {n} \cup LevelChain(st, st.r[n][level], level, fuel - 1)

\* The nodes on the chain of a level of container l.
LevelNodes(st, l, level) == LevelChain(st, l, level, Fuel + 1) \ {l}

\* C17: a node of a container is on the chain of level L exactly when its
\* height is above L; the nodes on the chain of a level are nodes of the
\* chain of the level below, and every node reached on any level is on the
\* level-0 chain.
C17_LevelMembership ==
    \A l \in constructed :
        LET all == UNION {LevelNodes(Store, l, level) : level \in Levels} IN
        /\ \A n \in all : \A level \in Levels :
              (n \in LevelNodes(Store, l, level)) <=> (n \in live /\ level <= Len(mRhs[n]))
        /\ \A level \in Levels \ {MAX_HEIGHT} :
              LevelNodes(Store, l, level + 1) \subseteq LevelNodes(Store, l, level)
        /\ all \subseteq LevelNodes(Store, l, 1)

\* C18: in a state no erase has damaged, for every node an iterator of the
\* container can be at, discoverLinksToUpdate called as erase calls it
\* records on every level below the node's height a predecessor whose link
\* of that level is the node itself.
C18_ErasePredecessors ==
    strayed = 0 =>
        \A l \in constructed : \A node \in OwnedChain(Store, l, Fuel + 1) \ {l} :
            LET height == HeightAt(Store, node, NoGarbage)
                d == discoverLinksToUpdate(Store, l, KeyAt(Store, node, NoGarbage),
                                           height, NoGarbage)
            IN \A level \in 1..height :
                  RhsAt(d.st, d.st.buf[level], level, NoGarbage) = node

\* The keys of the nodes reached by following the links of one level from
\* the head of container l.
RECURSIVE LevelKeysFrom(_, _, _, _, _)
LevelKeysFrom(st, n, level, g, fuel) ==
    IF n = NULL \/ fuel = 0 THEN <<>>
    ELSE <<KeyAt(st, n, g)>> \o LevelKeysFrom(st, RhsAt(st, n, level, g), level, g, fuel - 1)

LevelKeys(st, l, level, g) == LevelKeysFrom(st, RhsAt(st, l, level, g), level, g, Fuel + 1)

\* C19: on every level the keys of the nodes reached from the head are
\* strictly increasing under the comparator: each key precedes the next.
C19_LevelsStrictlyIncreasing ==
    \A l \in constructed : \A level \in Levels : \A g \in Garbage :
        LET t == LevelKeys(Store, l, level, g) IN
        \A i \in 1..(Len(t) - 1) : Compare(t[i], t[i + 1])

\* The non-end iterators container l hands out in state st.
NodeIterators(st, l) == {it \in IteratorsOf(st, l) : it.mNode # NULL}

\* The containers whose traversal visits node n.
Holders(st, n) == {l \in Lists : n \in SeqRange(Traversal(st, l, NoGarbage))}

\* C20: an iterator obtained before an insert, an erase of another node, or
\* a swap is, after the call, still at a node of the traversal of the
\* container it is bound to; after a swap it compares equal to the iterator
\* that the container now holding its node returns from find for its key.
\* Stated for the states no erase has damaged.
C20_IteratorsStayOwned ==
    [][(last'.op \in {"insert", "erase", "swap"} /\ strayed = 0 /\ strayed' = 0) =>
        \A l \in constructed : \A it \in NodeIterators(Store, l) :
            (it.mNode \in live' /\ ~(last'.op = "erase" /\ last'.node = it.mNode)) =>
                /\ it.mNode \in SeqRange(Traversal(Store', it.mSkiplist, NoGarbage))
                /\ last'.op = "swap" =>
                      \A holder \in Holders(Store', it.mNode) :
                          Cardinality(Matching(Store', holder, mKey[it.mNode], NoGarbage)) = 1 =>
                              operatorEq(it, iterator(holder,
                                  find(Store', holder, mKey[it.mNode], NoGarbage).node))]_vars

====
